---- MODULE Spec2Model ----
(***************************************************************************)
(* The application menu of src/src/menu.ts as a state machine: the         *)
(* configuration the menu is bound to, the menu installed as the           *)
(* application menu, the click handlers of its items, and the asynchronous *)
(* rebuild (refreshMenu -> setApplicationMenu -> mainMenuTemplate).        *)
(*                                                                         *)
(* Strings that the code compares (plugin identifiers and display names)   *)
(* are sequences of code units, a code unit being 2 * letter + case with   *)
(* case 0 for lower and 1 for upper: <<2>> is "a", <<3>> is "A", <<4>> is   *)
(* "b", <<5>> is "B", <<6>> is "c".  The empty sequence is the empty       *)
(* string.                                                                 *)
(***************************************************************************)
EXTENDS Integers, Sequences, FiniteSets, TLC

VARIABLES
    platform,        \* process.platform, fixed for the run
    inAppMenuActive, \* menu.ts:29, captured once at module load
    allPlugins,      \* virtual:plugins, the registry, in Object.keys order
    plugins,         \* config.plugins: identifier -> enabled
    options,         \* config 'options.*'
    hasLock,         \* app.hasSingleInstanceLock()
    winAlwaysOnTop,  \* the window's always-on-top flag
    activeLang,      \* the language t() resolves with
    langReloads,     \* setLanguage calls that have not taken effect yet
    menuTemplates,   \* getAllMenuTemplate(): identifier -> contributed fragment
    menu,            \* the menu installed by Menu.setApplicationMenu
    rebuilds,        \* refreshMenu calls suspended in loadAllMenuPlugins
    proxyPrompt,     \* setProxy suspended in prompt()
    filePicker,      \* import-css-file suspended in dialog.showOpenDialog
    hideMenuDialogs, \* informational hide-menu dialogs shown so far
    last             \* what the last handler or continuation did

vars == <<platform, inAppMenuActive, allPlugins, plugins, options, hasLock,
          winAlwaysOnTop, activeLang, langReloads, menuTemplates, menu,
          rebuilds, proxyPrompt, filePicker, hideMenuDialogs, last>>

--------------------------------------------------------------------------
(* Bounds of the model. *)

\* refreshMenu calls that may be suspended at the same time
MaxRebuilds == 2
\* setLanguage calls that may be pending at the same time
MaxReloads == 1
\* hide-menu dialogs after which the hide-menu item is no longer clicked
MaxDialogs == 2
\* rebuilds pending at the same time where the plugin checkboxes are explored
\* on their own
MaxPending == 1
\* options checked at the same time where the checkbox items are explored
MaxChecked == 3

--------------------------------------------------------------------------
(* The environment: platforms, languages, starting pages, the registry. *)

Platforms == {"win32", "linux", "darwin"}

isWindows == platform = "win32"
isLinux == platform = "linux"
isMacOS == platform = "darwin"

\* Object.keys(languageResources)
availableLanguages == <<"en", "ko">>

\* Object.keys(startingPages)
startingPageNames == <<"Home", "Library">>

\* What a user can type into the proxy prompt, and pick in the file dialog.
ProxyInputs == {"", "http://proxy:8080"}
FileSelections == {<<>>, <<"a.css">>, <<"a.css", "b.css">>}

Action(label) == [label |-> label, type |-> "normal"]
Separator == [type |-> "separator"]

\* Two registries.  Each plugin: its identifier, its display name when it has
\* one, and the menu fragment it contributes when it contributes one.
\* RegistryA: "c" named "ab" (one action), "b" unnamed (no menu), "A" named
\* "Ab" (an empty fragment).  RegistryB: "b" unnamed (one action), "a" named
\* "b" (no menu), "B" named "" (two actions).
RegistryA ==
    << [id |-> <<6>>, hasName |-> TRUE,  name |-> <<2, 4>>,
        hasMenu |-> TRUE,  menu |-> <<Action("act")>>],
       [id |-> <<4>>, hasName |-> FALSE, name |-> <<>>,
        hasMenu |-> FALSE, menu |-> <<>>],
       [id |-> <<3>>, hasName |-> TRUE,  name |-> <<3, 4>>,
        hasMenu |-> TRUE,  menu |-> <<>>] >>

RegistryB ==
    << [id |-> <<4>>, hasName |-> FALSE, name |-> <<>>,
        hasMenu |-> TRUE,  menu |-> <<Action("act")>>],
       [id |-> <<2>>, hasName |-> TRUE,  name |-> <<4>>,
        hasMenu |-> FALSE, menu |-> <<>>],
       [id |-> <<5>>, hasName |-> TRUE,  name |-> <<>>,
        hasMenu |-> TRUE,  menu |-> <<Action("x"), Action("y")>>] >>

Registries == {RegistryA, RegistryB}

PluginIds == {allPlugins[i].id : i \in 1..Len(allPlugins)}

Descriptor(id) == CHOOSE d \in {allPlugins[i] : i \in 1..Len(allPlugins)} : d.id = id

\* allPlugins[id]?.name ?? id
PluginLabel(id) ==
    IF id \in PluginIds /\ Descriptor(id).hasName THEN Descriptor(id).name ELSE id

--------------------------------------------------------------------------
(* String.prototype.localeCompare and Array.prototype.sort. *)

RECURSIVE CmpSeq(_, _)
CmpSeq(a, b) ==
    IF a = <<>> THEN (IF b = <<>> THEN 0 ELSE -1)
    ELSE IF b = <<>> THEN 1
    ELSE IF Head(a) < Head(b) THEN -1
    ELSE IF Head(a) > Head(b) THEN 1
    ELSE CmpSeq(Tail(a), Tail(b))

Primary(s) == [i \in 1..Len(s) |-> s[i] \div 2]
Tertiary(s) == [i \in 1..Len(s) |-> s[i] % 2]

\* Letters decide first; between strings with the same letters the case
\* does, lower case first.
localeCompare(a, b) ==
    LET p == CmpSeq(Primary(a), Primary(b))
    IN  IF p # 0 THEN p ELSE CmpSeq(Tertiary(a), Tertiary(b))

\* The comparator with the identifiers compared in place of the labels.
CompareIdentifiers(a, b) == localeCompare(a, b)

\* The comparator of menu.ts:94-99.
ComparePlugins(a, b) == localeCompare(PluginLabel(a), PluginLabel(b))

\* Array.prototype.sort with that comparator.  The sort is stable: of two
\* identifiers that compare equal, the one that was first stays first.  The
\* place of ids[i] is one more than the number of elements that go before it.
Before(ids, j, i) ==
    \/ ComparePlugins(ids[j], ids[i]) < 0
    \/ ComparePlugins(ids[j], ids[i]) = 0 /\ j < i

Place(ids, i) == 1 + Cardinality({j \in 1..Len(ids) : Before(ids, j, i)})

SortPlugins(ids) ==
    [k \in 1..Len(ids) |-> ids[CHOOSE i \in 1..Len(ids) : Place(ids, i) = k]]

--------------------------------------------------------------------------
(* The collaborators menu.ts reads: the resolver t() and the configuration. *)

\* t(key): the string of key in the language active at the time of the call.
t(key) == <<activeLang, key>>

\* config.get('options.<path>') on a store the menu has not yet written to.
\* Every value a click can write is reached from it by clicks; language and
\* hideMenuWarned, which no click of an unselected menu sets, are drawn in Init.
DefaultOptions ==
    [autoUpdates |-> FALSE, resumeOnStart |-> FALSE, startingPage |-> "",
     removeUpgradeButton |-> FALSE, likeButtons |-> "", themes |-> <<>>,
     alwaysOnTop |-> FALSE, hideMenu |-> FALSE, hideMenuWarned |-> FALSE,
     startAtLogin |-> FALSE, tray |-> FALSE, appVisible |-> TRUE,
     trayClickPlayPause |-> FALSE, language |-> "en", proxy |-> "",
     overrideUserAgent |-> FALSE, disableHardwareAcceleration |-> FALSE,
     restartOnConfigChanges |-> FALSE, autoResetAppCache |-> FALSE]

\* config.set(path, value) and config.setMenuOption(path, value)
SetOption(o, path, value) == [o EXCEPT ![path] = value]

\* A JavaScript array is truthy, the empty one too.
Truthy(array) == Len(array) >= 0

--------------------------------------------------------------------------
(* mainMenuTemplate, menu.ts:60-481. *)

\* menu.ts:31-51.  hasSubmenu is kept for the click handler.
pluginEnabledMenu(plugin, label, hasSubmenu) ==
    [label |-> IF label # <<>> THEN label ELSE plugin,
     type |-> "checkbox",
     checked |-> plugins[plugin],
     plugin |-> plugin,
     hasSubmenu |-> hasSubmenu]

\* menuResult with the wrapper built for every identifier, enabled or not.
menuResultAlwaysWrapped(templates) ==
    [id \in DOMAIN templates |->
        [label |-> PluginLabel(id),
         type |-> "submenu",
         submenu |-> <<pluginEnabledMenu(id, t("main.menu.plugins.enabled"), TRUE),
                       Separator>> \o templates[id]]]

\* menu.ts:67-90: one entry per identifier of templates, which is
\* getAllMenuTemplate() after the awaited load.
menuResult(templates) ==
    [id \in DOMAIN templates |->
        IF ~plugins[id]
        THEN pluginEnabledMenu(id, PluginLabel(id), TRUE)
        ELSE [label |-> PluginLabel(id),
              type |-> "submenu",
              submenu |-> <<pluginEnabledMenu(id, t("main.menu.plugins.enabled"), TRUE),
                            Separator>> \o templates[id]]]

\* menu.ts:92
availablePlugins == [i \in 1..Len(allPlugins) |-> allPlugins[i].id]

\* menu.ts:93-107
pluginMenus(templates) ==
    LET sorted == SortPlugins(availablePlugins)
        result == menuResult(templates)
    IN  [i \in 1..Len(sorted) |->
            IF sorted[i] \in DOMAIN result
            THEN result[sorted[i]]
            ELSE pluginEnabledMenu(sorted[i], PluginLabel(sorted[i]), TRUE)]

\* An item of type 'checkbox' bound to options.<path> through setMenuOption.
Checkbox(key, path) ==
    [label |-> t(key), type |-> "checkbox", checked |-> options[path], path |-> path]

\* An item of type 'radio'; value is what its click handler writes.
Radio(label, checked, value) ==
    [label |-> label, type |-> "radio", checked |-> checked, value |-> value]

\* menu.ts:135-157
startingPageSubmenu ==
    <<Radio(t("main.menu.options.submenu.starting-page.unset"),
            options.startingPage = "", "")>>
    \o [i \in 1..Len(startingPageNames) |->
            Radio(startingPageNames[i], options.startingPage = startingPageNames[i],
                  startingPageNames[i])]

\* menu.ts:172-200.  !'' is true, ! of a non-empty string is false.
likeButtonsSubmenu ==
    <<Radio(t("like-buttons.default"), options.likeButtons = "", ""),
      Radio(t("like-buttons.force-show"), options.likeButtons = "force", "force"),
      Radio(t("like-buttons.hide"), options.likeButtons = "hide", "hide")>>

\* menu.ts:201-227
themeSubmenu ==
    <<Radio(t("theme.submenu.no-theme"), Len(options.themes) = 0, <<>>),
      Separator,
      [label |-> t("theme.submenu.import-css-file"), type |-> "normal"]>>

\* The tray submenu with enabled-and-show-app checked whenever the tray is
\* enabled.
traySubmenuShowIgnoresVisibility ==
    <<Radio(t("tray.submenu.disabled"), ~options.tray, <<FALSE, TRUE>>),
      Radio(t("tray.submenu.enabled-and-show-app"), options.tray, <<TRUE, TRUE>>),
      Radio(t("tray.submenu.enabled-and-hide-app"),
            options.tray /\ ~options.appVisible, <<TRUE, FALSE>>),
      Separator,
      Checkbox("tray.submenu.play-pause-on-click", "trayClickPlayPause")>>

\* menu.ts:284-329
traySubmenu ==
    <<Radio(t("tray.submenu.disabled"), ~options.tray, <<FALSE, TRUE>>),
      Radio(t("tray.submenu.enabled-and-show-app"),
            options.tray /\ options.appVisible, <<TRUE, TRUE>>),
      Radio(t("tray.submenu.enabled-and-hide-app"),
            options.tray /\ ~options.appVisible, <<TRUE, FALSE>>),
      Separator,
      Checkbox("tray.submenu.play-pause-on-click", "trayClickPlayPause")>>

\* menu.ts:330-349: checkbox items, one per language bundle.
languageSubmenu ==
    [i \in 1..Len(availableLanguages) |->
        [label |-> availableLanguages[i], type |-> "checkbox",
         checked |-> options.language = availableLanguages[i],
         lang |-> availableLanguages[i]]]

\* menu.ts:116-423, the Options group.  The items of the nested submenus
\* (visual-tweaks, advanced-options) are fields of the same record; an item a
\* platform test includes or leaves out is a sequence of one or no item.
optionsSubmenu ==
    [autoUpdate |-> Checkbox("auto-update", "autoUpdates"),
     resumeOnStart |-> Checkbox("resume-on-start", "resumeOnStart"),
     startingPage |-> startingPageSubmenu,
     removeUpgradeButton |-> Checkbox("remove-upgrade-button", "removeUpgradeButton"),
     likeButtons |-> likeButtonsSubmenu,
     theme |-> themeSubmenu,
     singleInstanceLock |->
        [label |-> t("single-instance-lock"), type |-> "checkbox", checked |-> TRUE],
     alwaysOnTop |-> Checkbox("always-on-top", "alwaysOnTop"),
     hideMenu |-> IF isWindows \/ isLinux
                  THEN <<Checkbox("hide-menu.label", "hideMenu")>> ELSE <<>>,
     startAtLogin |-> IF isWindows \/ isMacOS
                      THEN <<Checkbox("start-at-login", "startAtLogin")>> ELSE <<>>,
     tray |-> traySubmenu,
     language |-> languageSubmenu,
     setProxy |-> [label |-> t("set-proxy.label"), type |-> "normal", checked |-> FALSE],
     overrideUserAgent |-> Checkbox("override-user-agent", "overrideUserAgent"),
     disableHardwareAcceleration |->
        Checkbox("disable-hardware-acceleration", "disableHardwareAcceleration"),
     restartOnConfigChanges |->
        Checkbox("restart-on-config-changes", "restartOnConfigChanges"),
     autoResetAppCache |-> Checkbox("auto-reset-app-cache", "autoResetAppCache")]

\* menu.ts:111-480: the groups in their order; View, Navigation and About hold
\* roles and handlers that read the window only.
mainMenuTemplate(templates) ==
    [plugins |-> [label |-> t("main.menu.plugins.label"),
                  submenu |-> pluginMenus(templates)],
     options |-> [label |-> t("main.menu.options.label"), submenu |-> optionsSubmenu],
     view |-> [label |-> t("main.menu.view.label")],
     navigation |-> [label |-> t("main.menu.navigation.label")],
     about |-> [label |-> t("main.menu.about")]]

\* menu.ts:482-509: the template, with the application submenu in front on
\* darwin, built and installed.
builtApplicationMenu(templates) ==
    [appMenu |-> IF isMacOS THEN <<[label |-> "app.name"]>> ELSE <<>>,
     template |-> mainMenuTemplate(templates)]

--------------------------------------------------------------------------
(* The loader, ./loader/menu. *)

\* loadAllMenuPlugins(win) reads which plugins are enabled when it is called
\* and registers the fragment of each that contributes one.
PluginsToLoad == {id \in PluginIds : plugins[id] /\ Descriptor(id).hasMenu}

\* getAllMenuTemplate() once the load of the identifiers in ids is through:
\* fragments are added or replaced, never removed.
LoadedTemplates(templates, ids) ==
    [id \in (DOMAIN templates) \cup ids |->
        IF id \in ids THEN Descriptor(id).menu ELSE templates[id]]

--------------------------------------------------------------------------
(* What the formulas below read of the run: the last step taken. *)

\* What started a refreshMenu: the click of a plugin checkbox (of which
\* plugin, set to what, and whether it was the checkbox inside a wrapper
\* submenu), the click of a language item, or another module.
Trigger(kind, plugin, enabled, wrapper, lang) ==
    [kind |-> kind, plugin |-> plugin, enabled |-> enabled, wrapper |-> wrapper,
     lang |-> lang]

NoTrigger == Trigger("none", <<>>, FALSE, FALSE, "")

NoStep ==
    [op |-> "handler", trigger |-> NoTrigger, refreshCalls |-> 0, notified |-> FALSE,
     item |-> "", value |-> FALSE,
     checkedBefore |-> FALSE, checkedAfter |-> FALSE,
     cancelled |-> FALSE, output |-> "", proxyBefore |-> "",
     filePaths |-> <<>>, themesBefore |-> <<>>]

\* A step of the handler of the Options item `item`, which Electron set to
\* `value` before it called the handler.
Toggled(item, value) == [NoStep EXCEPT !.op = "toggled", !.item = item, !.value = value]

--------------------------------------------------------------------------
(* The state when the window is up: the menu was built and installed once. *)

NoPrompt == [open |-> FALSE, detached |-> FALSE, checked |-> FALSE, checkedBefore |-> FALSE,
             proxyBefore |-> ""]

Init ==
    /\ platform \in Platforms
    /\ inAppMenuActive \in BOOLEAN
    /\ allPlugins \in Registries
    /\ plugins \in [PluginIds -> BOOLEAN]
    /\ \E lang \in {availableLanguages[i] : i \in 1..Len(availableLanguages)},
          warned \in BOOLEAN :
          /\ options = [DefaultOptions EXCEPT !.language = lang, !.hideMenuWarned = warned]
          /\ activeLang = lang
    /\ hasLock = TRUE
    /\ winAlwaysOnTop = FALSE
    /\ langReloads = <<>>
    /\ menuTemplates = LoadedTemplates(<<>>, PluginsToLoad)
    /\ menu = builtApplicationMenu(menuTemplates)
    /\ rebuilds = <<>>
    /\ proxyPrompt = NoPrompt
    /\ filePicker = FALSE
    /\ hideMenuDialogs = 0
    /\ last = [NoStep EXCEPT !.op = "installed", !.notified = inAppMenuActive]

--------------------------------------------------------------------------
(* refreshMenu, menu.ts:53-58, and what it awaits. *)

\* refreshMenu(win) up to its first suspension: setApplicationMenu calls
\* mainMenuTemplate, which calls loadAllMenuPlugins (for the plugins in load,
\* those enabled at the call) and awaits it.
StartRefresh(queue, trigger, load) ==
    Append(queue, [trigger |-> trigger, load |-> load])

RemoveAt(q, k) == SubSeq(q, 1, k - 1) \o SubSeq(q, k + 1, Len(q))

\* The load of the k-th suspended refreshMenu ends: mainMenuTemplate reads the
\* configuration and builds the template, setApplicationMenu installs it and
\* refreshMenu notifies the in-app menu.  The item a suspended setProxy holds
\* belongs to the menu that is replaced.
RebuildComplete ==
    \E k \in 1..Len(rebuilds) :
        /\ menuTemplates' = LoadedTemplates(menuTemplates, rebuilds[k].load)
        /\ rebuilds' = RemoveAt(rebuilds, k)
        /\ UNCHANGED <<platform, inAppMenuActive, allPlugins, plugins, options, hasLock,
                       winAlwaysOnTop, activeLang, langReloads, filePicker,
                       hideMenuDialogs>>
        /\ menu' = builtApplicationMenu(LoadedTemplates(menuTemplates, rebuilds[k].load))
        /\ proxyPrompt' =
              IF proxyPrompt.open /\ ~proxyPrompt.detached
              THEN [proxyPrompt EXCEPT !.detached = TRUE,
                                       !.checked = menu.template.options.submenu.setProxy.checked]
              ELSE proxyPrompt
        /\ last' = [NoStep EXCEPT !.op = "installed", !.trigger = rebuilds[k].trigger,
                                  !.notified = inAppMenuActive]

\* Another module calls the exported refreshMenu(win).
ExternalRefresh ==
    /\ Len(rebuilds) < MaxRebuilds
    /\ rebuilds' = StartRefresh(rebuilds, Trigger("external", <<>>, FALSE, FALSE, ""), PluginsToLoad)
    /\ last' = [NoStep EXCEPT !.op = "refresh", !.refreshCalls = 1]
    /\ UNCHANGED <<platform, inAppMenuActive, allPlugins, plugins, options, hasLock,
                   winAlwaysOnTop, activeLang, langReloads, menuTemplates, menu,
                   proxyPrompt, filePicker, hideMenuDialogs>>

--------------------------------------------------------------------------
(* The Plugins group. *)

PluginEntries == menu.template.plugins.submenu

\* The checkbox of the i-th entry: the entry itself, or the first item of its
\* submenu.
EntryCheckbox(entry) == IF entry.type = "checkbox" THEN entry ELSE entry.submenu[1]

\* Electron sets item.checked of a clicked checkbox to its negation before it
\* calls click(item).
FlipEntry(entry) ==
    IF entry.type = "checkbox"
    THEN [entry EXCEPT !.checked = ~@]
    ELSE [entry EXCEPT !.submenu[1].checked = ~@]

\* pluginEnabledMenu's click, menu.ts:40-50, on the checkbox of the i-th entry.
ClickPluginCheckbox ==
    \E i \in 1..Len(PluginEntries) :
        LET item == EntryCheckbox(FlipEntry(PluginEntries[i]))
            calls == IF item.hasSubmenu THEN 1 ELSE 0
            trigger == Trigger("plugin", item.plugin, item.checked,
                               PluginEntries[i].type = "submenu", "")
        IN  /\ Len(rebuilds) < MaxRebuilds
            /\ menu' = [menu EXCEPT !.template.plugins.submenu[i] = FlipEntry(@)]
            /\ plugins' = [plugins EXCEPT ![item.plugin] = item.checked]
            /\ UNCHANGED <<platform, inAppMenuActive, allPlugins, options, hasLock,
                           winAlwaysOnTop, activeLang, langReloads, menuTemplates,
                           proxyPrompt, filePicker, hideMenuDialogs>>
            /\ rebuilds' = IF item.hasSubmenu
                           THEN StartRefresh(rebuilds, trigger, PluginsToLoad')
                           ELSE rebuilds
            /\ last' = [NoStep EXCEPT !.op = "pluginClick", !.trigger = trigger,
                                      !.refreshCalls = calls]

--------------------------------------------------------------------------
(* The language items, menu.ts:330-349, and the resolver. *)

OptionItems == menu.template.options.submenu

\* The click of the i-th language item.  The item is a checkbox, which
\* Electron flips.  The handler persists the language, calls refreshMenu
\* without awaiting it, calls setLanguage and shows the confirmation dialog,
\* whose strings t() resolves at once.
SelectLanguage ==
    \E i \in 1..Len(OptionItems.language) :
        LET lang == OptionItems.language[i].lang
            trigger == Trigger("language", <<>>, FALSE, FALSE, lang)
        IN  /\ Len(rebuilds) < MaxRebuilds
            /\ Len(langReloads) < MaxReloads
            /\ menu' = [menu EXCEPT !.template.options.submenu.language[i].checked = ~@]
            /\ options' = SetOption(options, "language", lang)
            /\ rebuilds' = StartRefresh(rebuilds, trigger, PluginsToLoad)
            /\ langReloads' = Append(langReloads, lang)
            /\ last' = [NoStep EXCEPT !.op = "languageClick", !.trigger = trigger,
                                      !.refreshCalls = 1]
            /\ UNCHANGED <<platform, inAppMenuActive, allPlugins, plugins, hasLock,
                           winAlwaysOnTop, activeLang, menuTemplates, proxyPrompt,
                           filePicker, hideMenuDialogs>>

\* setLanguage(lang), '@/i18n': the resolver reloads and then resolves with
\* lang; calls take effect in the order they were made.
LanguageReloaded ==
    /\ langReloads # <<>>
    /\ activeLang' = Head(langReloads)
    /\ langReloads' = Tail(langReloads)
    /\ last' = NoStep
    /\ UNCHANGED <<platform, inAppMenuActive, allPlugins, plugins, options, hasLock,
                   winAlwaysOnTop, menuTemplates, menu, rebuilds, proxyPrompt,
                   filePicker, hideMenuDialogs>>

--------------------------------------------------------------------------
(* The checkbox items of the Options group. *)

\* The items whose handler is config.setMenuOption(path, item.checked) and
\* nothing else: menu.ts:119-134, 161-171, 361-398.
PlainCheckboxes ==
    {"autoUpdate", "resumeOnStart", "removeUpgradeButton", "overrideUserAgent",
     "disableHardwareAcceleration", "restartOnConfigChanges", "autoResetAppCache"}

OthersUnchanged ==
    UNCHANGED <<platform, inAppMenuActive, allPlugins, plugins, activeLang, langReloads,
                menuTemplates, rebuilds, proxyPrompt, filePicker>>

ClickCheckbox ==
    \E key \in PlainCheckboxes :
        LET checked == ~OptionItems[key].checked
        IN  /\ menu' = [menu EXCEPT !.template.options.submenu[key].checked = checked]
            /\ options' = SetOption(options, OptionItems[key].path, checked)
            /\ last' = Toggled(key, checked)
            /\ OthersUnchanged
            /\ UNCHANGED <<hasLock, winAlwaysOnTop, hideMenuDialogs>>

\* menu.ts:317-327, the checkbox behind the separator of the tray submenu
ClickTrayPlayPause ==
    LET checked == ~OptionItems.tray[5].checked
    IN  /\ menu' = [menu EXCEPT !.template.options.submenu.tray[5].checked = checked]
        /\ options' = SetOption(options, "trayClickPlayPause", checked)
        /\ last' = Toggled("trayClickPlayPause", checked)
        /\ OthersUnchanged
        /\ UNCHANGED <<hasLock, winAlwaysOnTop, hideMenuDialogs>>

\* menu.ts:270-283
ClickStartAtLogin ==
    /\ OptionItems.startAtLogin # <<>>
    /\ LET checked == ~OptionItems.startAtLogin[1].checked
       IN  /\ menu' = [menu EXCEPT !.template.options.submenu.startAtLogin[1].checked = checked]
           /\ options' = SetOption(options, "startAtLogin", checked)
           /\ last' = Toggled("startAtLogin", checked)
    /\ OthersUnchanged
    /\ UNCHANGED <<hasLock, winAlwaysOnTop, hideMenuDialogs>>

\* menu.ts:230-241
ClickSingleInstanceLock ==
    LET checked == ~OptionItems.singleInstanceLock.checked
    IN  /\ menu' = [menu EXCEPT !.template.options.submenu.singleInstanceLock.checked = checked]
        /\ hasLock' = IF ~checked /\ hasLock THEN FALSE
                      ELSE IF checked /\ ~hasLock THEN TRUE
                      ELSE hasLock
        /\ last' = Toggled("singleInstanceLock", checked)
        /\ OthersUnchanged
        /\ UNCHANGED <<options, winAlwaysOnTop, hideMenuDialogs>>

\* menu.ts:242-250
ClickAlwaysOnTop ==
    LET checked == ~OptionItems.alwaysOnTop.checked
    IN  /\ menu' = [menu EXCEPT !.template.options.submenu.alwaysOnTop.checked = checked]
        /\ options' = SetOption(options, "alwaysOnTop", checked)
        /\ winAlwaysOnTop' = checked
        /\ last' = Toggled("alwaysOnTop", checked)
        /\ OthersUnchanged
        /\ UNCHANGED <<hasLock, hideMenuDialogs>>

\* menu.ts:251-269.  The dialog is counted; the item is no longer clicked once
\* MaxDialogs dialogs were shown.
ClickHideMenu ==
    /\ OptionItems.hideMenu # <<>>
    /\ hideMenuDialogs < MaxDialogs
    /\ LET checked == ~OptionItems.hideMenu[1].checked
       IN  /\ menu' = [menu EXCEPT !.template.options.submenu.hideMenu[1].checked = checked]
           /\ options' = SetOption(options, "hideMenu", checked)
           /\ hideMenuDialogs' = IF checked /\ ~options.hideMenuWarned
                                 THEN hideMenuDialogs + 1 ELSE hideMenuDialogs
           /\ last' = Toggled("hideMenu", checked)
    /\ OthersUnchanged
    /\ UNCHANGED <<hasLock, winAlwaysOnTop>>

--------------------------------------------------------------------------
(* The radio items of the Options group. *)

\* Electron checks a clicked radio item and unchecks the other radio items
\* of its group before it calls the handler.
CheckRadio(group, i) ==
    [j \in 1..Len(group) |->
        IF group[j].type = "radio" THEN [group[j] EXCEPT !.checked = (j = i)] ELSE group[j]]

RadiosOf(group) == {j \in 1..Len(group) : group[j].type = "radio"}

\* menu.ts:143-145, 151-153
SelectStartingPage ==
    \E i \in RadiosOf(OptionItems.startingPage) :
        /\ menu' = [menu EXCEPT !.template.options.submenu.startingPage = CheckRadio(@, i)]
        /\ options' = SetOption(options, "startingPage", OptionItems.startingPage[i].value)
        /\ last' = NoStep
        /\ OthersUnchanged
        /\ UNCHANGED <<hasLock, winAlwaysOnTop, hideMenuDialogs>>

\* menu.ts:179-181, 187-189, 195-197
SelectLikeButtons ==
    \E i \in RadiosOf(OptionItems.likeButtons) :
        /\ menu' = [menu EXCEPT !.template.options.submenu.likeButtons = CheckRadio(@, i)]
        /\ options' = SetOption(options, "likeButtons", OptionItems.likeButtons[i].value)
        /\ last' = NoStep
        /\ OthersUnchanged
        /\ UNCHANGED <<hasLock, winAlwaysOnTop, hideMenuDialogs>>

\* menu.ts:208-210
SelectNoTheme ==
    /\ menu' = [menu EXCEPT !.template.options.submenu.theme = CheckRadio(@, 1)]
    /\ options' = SetOption(options, "themes", OptionItems.theme[1].value)
    /\ last' = NoStep
    /\ OthersUnchanged
    /\ UNCHANGED <<hasLock, winAlwaysOnTop, hideMenuDialogs>>

\* menu.ts:291-294, 301-304, 311-314: two writes in one handler
SelectTray ==
    \E i \in RadiosOf(OptionItems.tray) :
        /\ menu' = [menu EXCEPT !.template.options.submenu.tray = CheckRadio(@, i)]
        /\ options' = SetOption(SetOption(options, "tray", OptionItems.tray[i].value[1]),
                                "appVisible", OptionItems.tray[i].value[2])
        /\ last' = NoStep
        /\ OthersUnchanged
        /\ UNCHANGED <<hasLock, winAlwaysOnTop, hideMenuDialogs>>

--------------------------------------------------------------------------
(* import-css-file, menu.ts:213-225.  One file dialog is open at a time. *)

\* The click: the handler suspends in dialog.showOpenDialog.
ClickImportCss ==
    /\ ~filePicker
    /\ filePicker' = TRUE
    /\ last' = NoStep
    /\ UNCHANGED <<platform, inAppMenuActive, allPlugins, plugins, options, hasLock,
                   winAlwaysOnTop, activeLang, langReloads, menuTemplates, menu,
                   rebuilds, proxyPrompt, hideMenuDialogs>>

\* The dialog resolves with the files chosen, none when it was cancelled.
FilePickerResolved ==
    \E filePaths \in FileSelections :
        /\ filePicker
        /\ filePicker' = FALSE
        /\ options' = IF Truthy(filePaths)
                      THEN SetOption(options, "themes", filePaths)
                      ELSE options
        /\ last' = [NoStep EXCEPT !.op = "picked", !.filePaths = filePaths,
                                  !.themesBefore = options.themes]
        /\ UNCHANGED <<platform, inAppMenuActive, allPlugins, plugins, hasLock,
                       winAlwaysOnTop, activeLang, langReloads, menuTemplates, menu,
                       rebuilds, proxyPrompt, hideMenuDialogs>>

--------------------------------------------------------------------------
(* set-proxy, menu.ts:354-360 and setProxy, menu.ts:511-535.  One prompt is
   open at a time. *)

\* The click.  The item is of type 'normal': Electron leaves item.checked as
\* it is.  setProxy suspends in prompt().
ClickSetProxy ==
    /\ ~proxyPrompt.open
    /\ proxyPrompt' = [open |-> TRUE, detached |-> FALSE, checked |-> FALSE,
                       checkedBefore |-> OptionItems.setProxy.checked,
                       proxyBefore |-> options.proxy]
    /\ last' = NoStep
    /\ UNCHANGED <<platform, inAppMenuActive, allPlugins, plugins, options, hasLock,
                   winAlwaysOnTop, activeLang, langReloads, menuTemplates, menu,
                   rebuilds, filePicker, hideMenuDialogs>>

\* item.checked of the item setProxy was called with
PromptItemChecked ==
    IF proxyPrompt.detached THEN proxyPrompt.checked ELSE OptionItems.setProxy.checked

\* setProxy behind the await, menu.ts:528-534, with the prompt's output.
SetProxyResume(cancelled, output) ==
    LET checked == IF ~cancelled THEN output # "" ELSE ~PromptItemChecked
    IN  /\ options' = IF ~cancelled THEN SetOption(options, "proxy", output) ELSE options
        /\ menu' = IF proxyPrompt.detached THEN menu
                   ELSE [menu EXCEPT !.template.options.submenu.setProxy.checked = checked]
        /\ last' = [NoStep EXCEPT !.op = "prompted", !.cancelled = cancelled,
                                  !.output = output,
                                  !.checkedBefore = proxyPrompt.checkedBefore,
                                  !.checkedAfter = checked,
                                  !.proxyBefore = proxyPrompt.proxyBefore]

\* The prompt resolves with a string when it is confirmed, null when cancelled.
ProxyPromptResolved ==
    /\ proxyPrompt.open
    /\ \/ \E output \in ProxyInputs : SetProxyResume(FALSE, output)
       \/ SetProxyResume(TRUE, "")
    /\ proxyPrompt' = NoPrompt
    /\ UNCHANGED <<platform, inAppMenuActive, allPlugins, plugins, hasLock,
                   winAlwaysOnTop, activeLang, langReloads, menuTemplates,
                   rebuilds, filePicker, hideMenuDialogs>>

--------------------------------------------------------------------------
(* The specifications. *)

Next ==
    \/ ClickPluginCheckbox
    \/ SelectLanguage
    \/ LanguageReloaded
    \/ ExternalRefresh
    \/ RebuildComplete
    \/ ClickCheckbox
    \/ ClickTrayPlayPause
    \/ ClickStartAtLogin
    \/ ClickSingleInstanceLock
    \/ ClickAlwaysOnTop
    \/ ClickHideMenu
    \/ SelectStartingPage
    \/ SelectLikeButtons
    \/ SelectNoTheme
    \/ SelectTray
    \/ ClickImportCss
    \/ FilePickerResolved
    \/ ClickSetProxy
    \/ ProxyPromptResolved

Spec == Init /\ [][Next]_vars

\* The structural toggles: plugin checkboxes and language items, with the
\* rebuilds they start.  Every registry, every set of enabled plugins.
InitStructural ==
    /\ Init
    /\ platform = "darwin"
    /\ inAppMenuActive
    /\ ~options.hideMenuWarned

NextStructural ==
    \/ ClickPluginCheckbox
    \/ SelectLanguage
    \/ LanguageReloaded
    \/ RebuildComplete

SpecStructural == InitStructural /\ [][NextStructural]_vars

\* The plugin checkboxes on their own, in every registry and for every set of
\* enabled plugins, with at most MaxPending rebuilds pending.
InitPlugins ==
    /\ Init
    /\ inAppMenuActive
    /\ ~options.hideMenuWarned
    /\ options.language = "en"

NextPlugins ==
    \/ ClickPluginCheckbox /\ Len(rebuilds') <= MaxPending
    \/ RebuildComplete

SpecPlugins == InitPlugins /\ [][NextPlugins]_vars

\* The checkbox items of the Options group on every platform, with rebuilds
\* another module starts and at most MaxChecked options checked.
InitOptions ==
    /\ Init
    /\ allPlugins = RegistryA
    /\ \A id \in PluginIds : ~plugins[id]
    /\ ~inAppMenuActive
    /\ options.language = "en"

CheckedOptions(o) ==
    {path \in {"autoUpdates", "resumeOnStart", "removeUpgradeButton", "alwaysOnTop",
               "hideMenu", "startAtLogin", "trayClickPlayPause", "overrideUserAgent",
               "disableHardwareAcceleration", "restartOnConfigChanges",
               "autoResetAppCache"} : o[path]}

NextOptions ==
    \/ /\ \/ ClickCheckbox
          \/ ClickTrayPlayPause
          \/ ClickStartAtLogin
          \/ ClickSingleInstanceLock
          \/ ClickAlwaysOnTop
          \/ ClickHideMenu
       /\ Cardinality(CheckedOptions(options')) <= MaxChecked
    \/ ExternalRefresh
    \/ RebuildComplete

SpecOptions == InitOptions /\ [][NextOptions]_vars

\* The selections: the radio groups, the language items and the file dialog.
\* A language is selected when no rebuild and no reload is pending.
InitSelections ==
    /\ Init
    /\ platform = "linux"
    /\ allPlugins = RegistryA
    /\ \A id \in PluginIds : ~plugins[id]
    /\ ~inAppMenuActive
    /\ ~options.hideMenuWarned

NextSelections ==
    \/ SelectStartingPage
    \/ SelectLikeButtons
    \/ SelectNoTheme
    \/ SelectTray
    \/ SelectLanguage /\ rebuilds = <<>> /\ langReloads = <<>>
    \/ LanguageReloaded
    \/ ClickImportCss
    \/ FilePickerResolved
    \/ RebuildComplete

SpecSelections == InitSelections /\ [][NextSelections]_vars

\* The proxy prompt and the file dialog on every platform, with rebuilds
\* another module starts.
InitPrompts ==
    /\ Init
    /\ allPlugins = RegistryA
    /\ \A id \in PluginIds : ~plugins[id]
    /\ ~inAppMenuActive
    /\ ~options.hideMenuWarned
    /\ options.language = "en"

NextPrompts ==
    \/ ClickSetProxy
    \/ ProxyPromptResolved
    \/ ClickImportCss
    \/ FilePickerResolved
    \/ SelectNoTheme
    \/ ExternalRefresh
    \/ RebuildComplete

SpecPrompts == InitPrompts /\ [][NextPrompts]_vars

--------------------------------------------------------------------------
(* What is checked.  Installed holds in the states in which the installed
   menu is the one a rebuild has just built. *)

Installed == last.op = "installed"

CheckedIn(group, members) == {j \in members : group[j].checked}

AllOf(group) == 1..Len(group)

StartingPageGroupOk ==
    \E j \in AllOf(OptionItems.startingPage) :
        /\ CheckedIn(OptionItems.startingPage, AllOf(OptionItems.startingPage)) = {j}
        /\ OptionItems.startingPage[j].value = options.startingPage

LikeButtonsGroupOk ==
    \E j \in AllOf(OptionItems.likeButtons) :
        /\ CheckedIn(OptionItems.likeButtons, AllOf(OptionItems.likeButtons)) = {j}
        /\ OptionItems.likeButtons[j].value = options.likeButtons

TrayGroupOk ==
    \E j \in RadiosOf(OptionItems.tray) :
        /\ CheckedIn(OptionItems.tray, RadiosOf(OptionItems.tray)) = {j}
        /\ OptionItems.tray[j].value = <<options.tray, options.appVisible>>

LanguageGroupOk ==
    \E j \in AllOf(OptionItems.language) :
        /\ CheckedIn(OptionItems.language, AllOf(OptionItems.language)) = {j}
        /\ OptionItems.language[j].lang = options.language

ThemeGroupOneChecked ==
    \E j \in RadiosOf(OptionItems.theme) :
        /\ CheckedIn(OptionItems.theme, RadiosOf(OptionItems.theme)) = {j}
        /\ OptionItems.theme[j].value = options.themes

\* C1 as claimed: in a rebuilt menu each of the five groups (starting-page,
\* like-buttons, theme, tray mode, language) has exactly one checked item, the
\* one that matches the configuration.
C1_OneCheckedPerGroup ==
    Installed =>
        /\ StartingPageGroupOk
        /\ LikeButtonsGroupOk
        /\ ThemeGroupOneChecked
        /\ TrayGroupOk
        /\ LanguageGroupOk

\* C1 as amended: in a rebuilt menu the starting-page, like-buttons, tray mode
\* and language groups each have exactly one checked item, the one that
\* matches the configuration; the theme group has one radio item, no-theme,
\* which is checked exactly when options.themes is empty, so that the group
\* has no checked item while theme files are configured.
C1_OneCheckedPerGroupButTheme ==
    Installed =>
        /\ StartingPageGroupOk
        /\ LikeButtonsGroupOk
        /\ TrayGroupOk
        /\ LanguageGroupOk
        /\ RadiosOf(OptionItems.theme) = {1}
        /\ OptionItems.theme[1].checked <=> (Len(options.themes) = 0)

\* A menu rebuilt after a selection in every group, theme files included.
C1_Witness ==
    /\ Installed
    /\ last.trigger.kind = "language"
    /\ options.startingPage = "Library"
    /\ options.likeButtons = "hide"
    /\ options.tray /\ ~options.appVisible
    /\ Len(options.themes) = 2
    /\ options.language = "ko"

EntryPlugin(i) == EntryCheckbox(PluginEntries[i]).plugin

\* The first item of a wrapper submenu: the checked 'enabled' checkbox of id.
IsEnabledCheckbox(item, id) ==
    /\ item.type = "checkbox"
    /\ item.checked
    /\ item.plugin = id
    /\ item.label[2] = "main.menu.plugins.enabled"

\* entry is a submenu: the enabled-checkbox, a separator, the fragment.
IsWrapper(entry, id, fragment) ==
    /\ entry.type = "submenu"
    /\ Len(entry.submenu) = 2 + Len(fragment)
    /\ IsEnabledCheckbox(entry.submenu[1], id)
    /\ entry.submenu[2].type = "separator"
    /\ \A k \in 1..Len(fragment) : entry.submenu[k + 2] = fragment[k]

\* entry is a submenu that holds the enabled-checkbox and nothing else.
IsBareWrapper(entry, id) ==
    /\ entry.type = "submenu"
    /\ Len(entry.submenu) = 1
    /\ IsEnabledCheckbox(entry.submenu[1], id)

IsPlainCheckbox(entry, checked) ==
    /\ entry.type = "checkbox"
    /\ entry.checked = checked

\* C2 as claimed: in a built menu the entry of a disabled plugin is a plain
\* unchecked checkbox, the entry of an enabled plugin is a submenu of the
\* checked enabled-checkbox, a separator and the plugin's fragment, and an
\* enabled plugin that contributes no template gets the submenu with just the
\* enabled-checkbox.
C2_EntryShape ==
    Installed =>
        \A i \in 1..Len(PluginEntries) :
            LET id == EntryPlugin(i)
            IN  IF ~plugins[id] THEN IsPlainCheckbox(PluginEntries[i], FALSE)
                ELSE IF Descriptor(id).hasMenu
                THEN IsWrapper(PluginEntries[i], id, Descriptor(id).menu)
                ELSE IsBareWrapper(PluginEntries[i], id)

\* C2 as amended: in a built menu the entry of a disabled plugin is a plain
\* unchecked checkbox; the entry of an enabled plugin for which the loader
\* holds a fragment is a submenu of the checked enabled-checkbox, a separator
\* and that fragment (a separator also when the fragment is empty); the entry
\* of an enabled plugin for which the loader holds no fragment is a plain
\* checked checkbox, not a submenu.
C2_EntryShapeByLoadedFragment ==
    Installed =>
        \A i \in 1..Len(PluginEntries) :
            LET id == EntryPlugin(i)
            IN  IF ~plugins[id] THEN IsPlainCheckbox(PluginEntries[i], FALSE)
                ELSE IF id \in DOMAIN menuTemplates
                THEN IsWrapper(PluginEntries[i], id, menuTemplates[id])
                ELSE IsPlainCheckbox(PluginEntries[i], TRUE)

\* A menu rebuilt after the click of a plugin checkbox, with a disabled
\* plugin, an enabled one with a loaded fragment and an enabled one without.
C2_Witness ==
    /\ Installed
    /\ last.trigger.kind = "plugin"
    /\ \E id \in PluginIds : ~plugins[id]
    /\ \E id \in PluginIds : plugins[id] /\ id \in DOMAIN menuTemplates
    /\ \E id \in PluginIds : plugins[id] /\ id \notin DOMAIN menuTemplates

\* C8: in a built menu the entries of the Plugins group are the registered
\* plugins, each once and no other, in the order of their display names,
\* whichever are enabled and whichever contributed a fragment.
C8_EntriesAreRegistrySorted ==
    Installed =>
        /\ Len(PluginEntries) = Len(allPlugins)
        /\ \A i \in 1..Len(PluginEntries) : EntryPlugin(i) \in PluginIds
        /\ \A id \in PluginIds :
              Cardinality({i \in 1..Len(PluginEntries) : EntryPlugin(i) = id}) = 1
        /\ \A i, j \in 1..Len(PluginEntries) :
              i < j => localeCompare(PluginLabel(EntryPlugin(i)),
                                     PluginLabel(EntryPlugin(j))) <= 0

\* A menu rebuilt after a click, of a registry whose key order is not the
\* order of the display names, with enabled and disabled plugins and both
\* kinds of entry.
C8_Witness ==
    /\ Installed
    /\ last.trigger.kind = "plugin"
    /\ availablePlugins # SortPlugins(availablePlugins)
    /\ \E i, j \in 1..Len(PluginEntries) :
          /\ PluginEntries[i].type = "submenu"
          /\ PluginEntries[j].type = "checkbox"
          /\ ~plugins[EntryPlugin(j)]

\* C3: when the prompt is confirmed with a non-empty string, options.proxy is
\* that string and the item is checked; confirmed with the empty string,
\* options.proxy is empty and the item is unchecked; cancelled, options.proxy
\* is not written and the item's checked state is what it was before the click.
C3_ProxyPromptOutcome ==
    last.op = "prompted" =>
        /\ (~last.cancelled /\ last.output # "") =>
              (options.proxy = last.output /\ last.checkedAfter)
        /\ (~last.cancelled /\ last.output = "") =>
              (options.proxy = "" /\ ~last.checkedAfter)
        /\ last.cancelled =>
              (options.proxy = last.proxyBefore /\ last.checkedAfter = last.checkedBefore)

\* C4: when the file dialog resolves with no file, the handler leaves
\* options.themes as it was; options.themes is replaced only when at least
\* one file was chosen.
C4_EmptySelectionKeepsThemes ==
    (last.op = "picked" /\ last.filePaths = <<>>) => options.themes = last.themesBefore

StructuralRebuilds ==
    {k \in 1..Len(rebuilds) : rebuilds[k].trigger.kind \in {"plugin", "language"}}

\* C5: the rebuild a plugin checkbox or a language item starts completes
\* before its click handler returns, so that at most one such rebuild is in
\* progress at any time.
C5_RebuildsNeverOverlap == Cardinality(StructuralRebuilds) <= 1

\* C6: over any sequence of hide-menu toggles the informational dialog is
\* shown at most once.
C6_HideMenuDialogShownOnce == hideMenuDialogs <= 1

\* The entry of the Plugins group whose checkbox is that of plugin id
EntryOf(id) == PluginEntries[CHOOSE i \in 1..Len(PluginEntries) : EntryPlugin(i) = id]

\* C7: unchecking the enabled-checkbox in the wrapper submenu of an enabled
\* plugin marks the plugin disabled and calls refreshMenu once, and in the
\* menu that rebuild installs the plugin is a plain unchecked checkbox.
C7_DisableRebuildsToCheckbox ==
    /\ (last.op = "pluginClick" /\ last.trigger.wrapper /\ ~last.trigger.enabled) =>
          (~plugins[last.trigger.plugin] /\ last.refreshCalls = 1)
    /\ (Installed /\ last.trigger.kind = "plugin" /\ last.trigger.wrapper
            /\ ~last.trigger.enabled) =>
          IsPlainCheckbox(EntryOf(last.trigger.plugin), FALSE)

\* The boolean the checkbox item `key` of the Options group controls
ControlledValue(key) ==
    CASE key = "singleInstanceLock" -> hasLock
      [] key = "alwaysOnTop" -> options.alwaysOnTop
      [] key = "hideMenu" -> options.hideMenu
      [] key = "startAtLogin" -> options.startAtLogin
      [] key = "trayClickPlayPause" -> options.trayClickPlayPause
      [] key = "autoUpdate" -> options.autoUpdates
      [] OTHER -> options[key]

\* The items of the kind <<key, item>> the installed menu holds
OptionCheckboxes ==
    {<<key, OptionItems[key]>> : key \in PlainCheckboxes \cup {"singleInstanceLock", "alwaysOnTop"}}
    \cup {<<"hideMenu", OptionItems.hideMenu[i]>> : i \in 1..Len(OptionItems.hideMenu)}
    \cup {<<"startAtLogin", OptionItems.startAtLogin[i]>> : i \in 1..Len(OptionItems.startAtLogin)}
    \cup {<<"trayClickPlayPause", OptionItems.tray[5]>>}

\* C9: after a checkbox item of the Options group is toggled to v, the
\* boolean it controls is v (for single-instance-lock: the lock is held
\* exactly if v), and in a rebuilt menu every such item's checked state is
\* the current value of the boolean it controls.
C9_CheckboxShowsItsOption ==
    /\ last.op = "toggled" => ControlledValue(last.item) = last.value
    /\ Installed => \A c \in OptionCheckboxes : c[2].checked = ControlledValue(c[1])

\* C10: selecting language L persists options.language = L, and the rebuild
\* that selection starts installs a menu whose labels were resolved with L as
\* the active language.
C10_RebuildUsesSelectedLanguage ==
    /\ last.op = "languageClick" => options.language = last.trigger.lang
    /\ (Installed /\ last.trigger.kind = "language") =>
          menu.template.options.label[1] = last.trigger.lang

====
